---- MODULE Spec2Model ----
(***************************************************************************)
(* Model of the user endpoints of the PetLove backend                      *)
(* (backend_python/routers/users.py) together with the maintenance scripts *)
(* that write the same "users" collection (init_database.py,               *)
(* add_sample_data.py, add_login_credentials.py).                          *)
(*                                                                         *)
(* A handler is cut into steps at its awaits on the store: every step is   *)
(* one store operation together with the synchronous code that follows it  *)
(* up to the next await.  Steps of different requests interleave freely.   *)
(***************************************************************************)
EXTENDS Integers, Sequences, FiniteSets, TLC

VARIABLES
    users,          \* the "users" collection, in natural (insertion) order
    origin,         \* history: for every document of users, who wrote it and from which plaintext
    uniqueIndex,    \* TRUE once init_database created the unique index on users.email
    bcrypt_build,   \* which bcrypt release is installed (no version is pinned)
    req,            \* the register requests in flight, one slot per connection
    resp            \* the response sent by the last step, NoResp when it sent none

vars == <<users, origin, uniqueIndex, bcrypt_build, req, resp>>

(***************************************************************************)
(* Bounds of the model                                                     *)
(***************************************************************************)
NumReq == 2         \* register requests that can be in flight together
MaxUsers == 2       \* documents the collection can hold in the model
MaxPwLen == 2       \* longest password a client submits
NumSalts == 1       \* distinct values gensalt() can draw

\* bcrypt reads at most 72 bytes of a password; the model scales 72 down so
\* that passwords longer than the limit exist within MaxPwLen.
BcryptMaxBytes == 1

Req == 1..NumReq
Emails == {"e1", "e2"}
Alphabet == {"a", "b"}
Passwords == UNION {[1..n -> Alphabet] : n \in 1..MaxPwLen}
SaltNames == <<"s1", "s2", "s3">>
Salts == {SaltNames[i] : i \in 1..NumSalts}
Names == {"Ann"}
NoVal == "none"
None == <<>>          \* Python's None where a document or a string is expected

Min(a, b) == IF a <= b THEN a ELSE b

(***************************************************************************)
(* models/user.py is not part of the sources at hand: the request and      *)
(* response models are taken from the fields the handlers and the          *)
(* specification use.                                                      *)
(***************************************************************************)
\* UserCreate: the body of a register request.
UserCreate ==
    [name : Names, email : Emails, password : Passwords,
     phone : {"555"}, address : {"street"}]

\* UserLogin: the body of a login request.
UserLogin == [email : Emails, password : Passwords]

\* User: the response model of get_all_users and of both register handlers.
UserFields == {"id", "name", "email", "phone", "address", "password"}

\* response_model=User: the fields of the model that the document has.
AsUser(doc) == [f \in (UserFields \cap DOMAIN doc) |-> doc[f]]

(***************************************************************************)
(* bcrypt                                                                  *)
(***************************************************************************)
\* The key bcrypt derives the digest from: the first 72 bytes of the password.
Truncate(p) == SubSeq(p, 1, Min(Len(p), BcryptMaxBytes))

\* Releases of bcrypt from 5.0.0 on raise ValueError for a password longer
\* than 72 bytes; earlier releases truncate it silently.
TooLong(p) == bcrypt_build = "raising" /\ Len(p) > BcryptMaxBytes

\* bcrypt.hashpw(password, salt) raises
HashPwRaises(p) == TooLong(p)

\* Mutant: every hash is made with one fixed salt.
HashPwFixedSalt(p, salt) == <<"$2b$", SaltNames[1]>> \o Truncate(p)

\* Mutant: the password is stored as submitted.
HashPwPlain(p, salt) == p

\* bcrypt.hashpw(password, salt).decode(): "$2b$" <cost+salt> <digest>.  The
\* digest is a collision-free function of the salt and the key, written here
\* as the key itself.
HashPw(p, salt) == <<"$2b$", salt>> \o Truncate(p)

\* Mutant: the marker of another bcrypt variant is tested.
StartsWith2a(stored) == Len(stored) >= 1 /\ stored[1] = "$2a$"

\* stored_password.startswith('$2b$')
StartsWith2b(stored) == Len(stored) >= 1 /\ stored[1] = "$2b$"

\* stored parses as a bcrypt hash: marker, salt, digest.
WellFormedHash(stored) ==
    Len(stored) >= 3 /\ stored[1] = "$2b$" /\ stored[2] \in Salts

\* bcrypt.checkpw(password, stored) raises: ValueError("Invalid salt") when
\* stored does not parse, or the ValueError of hashpw.
CheckPwRaises(p, stored) == ~WellFormedHash(stored) \/ HashPwRaises(p)

\* bcrypt.checkpw(password, stored): hashes the password again with the salt
\* embedded in stored and compares the result with stored.
CheckPw(p, stored) == HashPw(p, stored[2]) = stored

(***************************************************************************)
(* The store                                                               *)
(***************************************************************************)
\* Positions of the documents whose email is e.
WithEmail(coll, e) == {i \in 1..Len(coll) : coll[i].email = e}

\* Mutant: the query names the wrong field.
FindOneByName(coll, e) ==
    IF \E i \in 1..Len(coll) : coll[i].name = e
    THEN <<coll[CHOOSE i \in 1..Len(coll) : coll[i].name = e]>>
    ELSE None

\* collection.find_one({"email": e}): the first match in natural order as
\* <<doc>>, None when there is no match.
FindOneByEmail(coll, e) ==
    IF WithEmail(coll, e) = {}
    THEN None
    ELSE <<coll[CHOOSE i \in WithEmail(coll, e) : \A j \in WithEmail(coll, e) : i <= j]>>

\* collection.find_one({"_id": id})
FindOneById(coll, id) ==
    IF \E i \in 1..Len(coll) : coll[i].id = id
    THEN <<coll[CHOOSE i \in 1..Len(coll) : coll[i].id = id]>>
    ELSE None

\* The ObjectId insert_one gives a document without one: unique in the collection.
NewId(coll) == Len(coll) + 1

\* str(ObjectId): the hexadecimal text of the id.
ObjectIdStr(id) == <<"oid", id>>

\* Mutant: the store refuses a second document with an email, index or not.
DuplicateKeyAlways(coll, doc) == WithEmail(coll, doc.email) # {}

\* Mutant: the index is not unique, the store refuses nothing.
DuplicateKeyNever(coll, doc) == FALSE

\* insert_one raises DuplicateKeyError: the unique index on email exists and
\* the email is already in the collection.
DuplicateKey(coll, doc) == uniqueIndex /\ WithEmail(coll, doc.email) # {}

\* No two documents of the collection have the same email.
EmailsUnique(coll) ==
    \A i, j \in 1..Len(coll) : coll[i].email = coll[j].email => i = j

(***************************************************************************)
(* Responses                                                               *)
(***************************************************************************)
NoResp == [handler |-> NoVal, request |-> None, status |-> 0, body |-> None,
           fault |-> FALSE]

HTTPException(status, detail) == [status |-> status, body |-> [detail |-> detail]]

Answer(handler, request, out, fault) ==
    [handler |-> handler, request |-> request, status |-> out.status,
     body |-> out.body, fault |-> fault]

\* str(e) of the exceptions that reach a handler's "except Exception".
StoreErrorText == "ServerSelectionTimeoutError: connection refused"
DuplicateKeyText == "E11000 duplicate key error collection: petlove.users index: email_1"
ValueErrorText == "password cannot be longer than 72 bytes"

\* response_model=User of a document
UserBody(doc) == [AsUser(doc) EXCEPT !.id = ObjectIdStr(doc.id)]

Idle == [pc |-> "idle", handler |-> NoVal, user |-> None, user_dict |-> None,
         inserted_id |-> 0]

InFlight == {r \in Req : req[r].pc # "idle"}

\* A new request takes the lowest free slot.
FreeSlot(r) == req[r].pc = "idle" /\ \A q \in Req : q < r => req[q].pc # "idle"

\* Room left in the collection for the document of one more request.
Room == Len(users) + Cardinality(InFlight) < MaxUsers

Init ==
    /\ users = <<>>
    /\ origin = <<>>
    /\ uniqueIndex = FALSE
    /\ bcrypt_build \in {"truncating", "raising"}
    /\ req = [r \in Req |-> Idle]
    /\ resp = NoResp

(***************************************************************************)
(* POST /  register_user                                                   *)
(***************************************************************************)
\* Mutant: the handler without its existence check.
RegisterUser_NoCheck(r, user, salt, fault) ==
    /\ FreeSlot(r)
    /\ IF fault
       THEN /\ resp' = Answer("register_user", user, HTTPException(400, StoreErrorText), TRUE)
            /\ req' = req
       ELSE IF HashPwRaises(user.password)
       THEN /\ resp' = Answer("register_user", user, HTTPException(400, ValueErrorText), FALSE)
            /\ req' = req
       ELSE /\ Room
            /\ resp' = NoResp
            /\ req' = [req EXCEPT ![r] =
                          [pc |-> "insert_one", handler |-> "register_user",
                           user |-> user,
                           user_dict |-> [user EXCEPT !.password = HashPw(user.password, salt)],
                           inserted_id |-> 0]]
    /\ UNCHANGED <<users, origin, uniqueIndex, bcrypt_build>>

\* Lines 21-37: the existence check, then hashing and building user_dict.
RegisterUser_FindExisting(r, user, salt, fault) ==
    /\ FreeSlot(r)
    /\ LET existing_user == FindOneByEmail(users, user.email)
           hashed_password == HashPw(user.password, salt)
       IN  IF fault
           THEN /\ resp' = Answer("register_user", user, HTTPException(400, StoreErrorText), TRUE)
                /\ req' = req
           ELSE IF existing_user # None
           THEN /\ resp' = Answer("register_user", user,
                                  HTTPException(409, "Email already registered"), FALSE)
                /\ req' = req
           ELSE IF HashPwRaises(user.password)
           THEN /\ resp' = Answer("register_user", user, HTTPException(400, ValueErrorText), FALSE)
                /\ req' = req
           ELSE /\ Room
                /\ resp' = NoResp
                /\ req' = [req EXCEPT ![r] =
                              [pc |-> "insert_one", handler |-> "register_user",
                               user |-> user,
                               user_dict |-> [user EXCEPT !.password = hashed_password],
                               inserted_id |-> 0]]
    /\ UNCHANGED <<users, origin, uniqueIndex, bcrypt_build>>

\* Mutant: an insert that raises is not caught, the request gets no answer.
RegisterUser_InsertOneEscapes(r, fault) ==
    /\ ~fault
    /\ req[r].pc = "insert_one"
    /\ req[r].handler = "register_user"
    /\ LET user_dict == req[r].user_dict
           id == NewId(users)
       IN  IF DuplicateKey(users, user_dict)
           THEN /\ resp' = Answer("register_user", req[r].user,
                                  HTTPException(400, DuplicateKeyText), fault)
                /\ req' = [req EXCEPT ![r] = Idle]
                /\ UNCHANGED <<users, origin>>
           ELSE /\ users' = Append(users, [id |-> id] @@ user_dict)
                /\ origin' = Append(origin, [by |-> "register",
                                             password |-> req[r].user.password])
                /\ req' = [req EXCEPT ![r].pc = "find_created",
                                      ![r].user_dict = None,
                                      ![r].inserted_id = id]
                /\ resp' = NoResp
    /\ UNCHANGED <<uniqueIndex, bcrypt_build>>

\* Line 37: insert_one(user_dict)
RegisterUser_InsertOne(r, fault) ==
    /\ req[r].pc = "insert_one"
    /\ req[r].handler = "register_user"
    /\ LET user_dict == req[r].user_dict
           id == NewId(users)
       IN  IF fault \/ DuplicateKey(users, user_dict)
           THEN /\ resp' = Answer("register_user", req[r].user,
                                  HTTPException(400, IF fault THEN StoreErrorText
                                                              ELSE DuplicateKeyText), fault)
                /\ req' = [req EXCEPT ![r] = Idle]
                /\ UNCHANGED <<users, origin>>
           ELSE /\ users' = Append(users, [id |-> id] @@ user_dict)
                /\ origin' = Append(origin, [by |-> "register",
                                             password |-> req[r].user.password])
                /\ req' = [req EXCEPT ![r].pc = "find_created",
                                      ![r].user_dict = None,
                                      ![r].inserted_id = id]
                /\ resp' = NoResp
    /\ UNCHANGED <<uniqueIndex, bcrypt_build>>

\* Lines 38-41: find_one({"_id": result.inserted_id}) and the 201 response
RegisterUser_FindCreated(r, fault) ==
    /\ req[r].pc = "find_created"
    /\ req[r].handler = "register_user"
    /\ LET created_user == FindOneById(users, req[r].inserted_id)
       IN  resp' = Answer("register_user", req[r].user,
                          IF fault THEN HTTPException(400, StoreErrorText)
                          ELSE [status |-> 201, body |-> UserBody(created_user[1])],
                          fault)
    /\ req' = [req EXCEPT ![r] = Idle]
    /\ UNCHANGED <<users, origin, uniqueIndex, bcrypt_build>>

(***************************************************************************)
(* POST /register  register_user_alt                                       *)
(***************************************************************************)
\* Lines 52-68: the existence check, then hashing and building user_dict.
RegisterUserAlt_FindExisting(r, user, salt, fault) ==
    /\ FreeSlot(r)
    /\ LET existing_user == FindOneByEmail(users, user.email)
           hashed_password == HashPw(user.password, salt)
       IN  IF fault
           THEN /\ resp' = Answer("register_user_alt", user, HTTPException(400, StoreErrorText), TRUE)
                /\ req' = req
           ELSE IF existing_user # None
           THEN /\ resp' = Answer("register_user_alt", user,
                                  HTTPException(409, "Email already registered"), FALSE)
                /\ req' = req
           ELSE IF HashPwRaises(user.password)
           THEN /\ resp' = Answer("register_user_alt", user, HTTPException(400, ValueErrorText), FALSE)
                /\ req' = req
           ELSE /\ Room
                /\ resp' = NoResp
                /\ req' = [req EXCEPT ![r] =
                              [pc |-> "insert_one", handler |-> "register_user_alt",
                               user |-> user,
                               user_dict |-> [user EXCEPT !.password = hashed_password],
                               inserted_id |-> 0]]
    /\ UNCHANGED <<users, origin, uniqueIndex, bcrypt_build>>

\* Mutant: the second endpoint reports an insert that raises as 500.
RegisterUserAlt_InsertOne500(r, fault) ==
    /\ req[r].pc = "insert_one"
    /\ req[r].handler = "register_user_alt"
    /\ LET user_dict == req[r].user_dict
           id == NewId(users)
       IN  IF fault \/ DuplicateKey(users, user_dict)
           THEN /\ resp' = Answer("register_user_alt", req[r].user,
                                  HTTPException(500, IF fault THEN StoreErrorText
                                                              ELSE DuplicateKeyText), fault)
                /\ req' = [req EXCEPT ![r] = Idle]
                /\ UNCHANGED <<users, origin>>
           ELSE /\ users' = Append(users, [id |-> id] @@ user_dict)
                /\ origin' = Append(origin, [by |-> "register",
                                             password |-> req[r].user.password])
                /\ req' = [req EXCEPT ![r].pc = "find_created",
                                      ![r].user_dict = None,
                                      ![r].inserted_id = id]
                /\ resp' = NoResp
    /\ UNCHANGED <<uniqueIndex, bcrypt_build>>

\* Line 68: insert_one(user_dict)
RegisterUserAlt_InsertOne(r, fault) ==
    /\ req[r].pc = "insert_one"
    /\ req[r].handler = "register_user_alt"
    /\ LET user_dict == req[r].user_dict
           id == NewId(users)
       IN  IF fault \/ DuplicateKey(users, user_dict)
           THEN /\ resp' = Answer("register_user_alt", req[r].user,
                                  HTTPException(400, IF fault THEN StoreErrorText
                                                              ELSE DuplicateKeyText), fault)
                /\ req' = [req EXCEPT ![r] = Idle]
                /\ UNCHANGED <<users, origin>>
           ELSE /\ users' = Append(users, [id |-> id] @@ user_dict)
                /\ origin' = Append(origin, [by |-> "register",
                                             password |-> req[r].user.password])
                /\ req' = [req EXCEPT ![r].pc = "find_created",
                                      ![r].user_dict = None,
                                      ![r].inserted_id = id]
                /\ resp' = NoResp
    /\ UNCHANGED <<uniqueIndex, bcrypt_build>>

\* Lines 69-72: find_one({"_id": result.inserted_id}) and the 201 response
RegisterUserAlt_FindCreated(r, fault) ==
    /\ req[r].pc = "find_created"
    /\ req[r].handler = "register_user_alt"
    /\ LET created_user == FindOneById(users, req[r].inserted_id)
       IN  resp' = Answer("register_user_alt", req[r].user,
                          IF fault THEN HTTPException(400, StoreErrorText)
                          ELSE [status |-> 201, body |-> UserBody(created_user[1])],
                          fault)
    /\ req' = [req EXCEPT ![r] = Idle]
    /\ UNCHANGED <<users, origin, uniqueIndex, bcrypt_build>>

(***************************************************************************)
(* POST /login  login_user                                                 *)
(***************************************************************************)
\* Mutant: the legacy branch accepts whatever is submitted.
IsValidLegacyAny(password, stored_password) ==
    IF StartsWith2b(stored_password)
    THEN CheckPw(password, stored_password)
    ELSE TRUE

\* Lines 100-107: the verification of the submitted password.
IsValid(password, stored_password) ==
    IF StartsWith2b(stored_password)
    THEN CheckPw(password, stored_password)
    ELSE stored_password = password

\* Lines 98-103 raise: user["password"] is a KeyError, checkpw a ValueError.
VerifyRaises(user, password) ==
    \/ "password" \notin DOMAIN user
    \/ StartsWith2b(user.password) /\ CheckPwRaises(password, user.password)

\* Mutant: the projection carries the address where the phone belongs.
UserResponseAddress(user) ==
    [id |-> ObjectIdStr(user.id), name |-> user.name,
     email |-> user.email, phone |-> user.address]

\* Lines 118-123: UserResponse(id=str(user["_id"]), name, email, phone)
UserResponse(user) ==
    [id |-> ObjectIdStr(user.id), name |-> user.name,
     email |-> user.email, phone |-> user.phone]

\* Lines 118-123 raise: user["name"], user["phone"] are a KeyError.
UserResponseRaises(user) == ~({"name", "email", "phone"} \subseteq DOMAIN user)

\* Mutant: a lookup that raises is answered as an unknown email.
LoginOutcomeFault400(coll, login_data, fault) ==
    LET user == FindOneByEmail(coll, login_data.email)
    IN  IF fault \/ user = None
        THEN HTTPException(400, "Invalid credentials")
        ELSE IF VerifyRaises(user[1], login_data.password)
        THEN HTTPException(500, "Server error")
        ELSE IF ~IsValid(login_data.password, user[1].password)
        THEN HTTPException(400, "Invalid credentials")
        ELSE IF UserResponseRaises(user[1])
        THEN HTTPException(500, "Server error")
        ELSE [status |-> 200, body |-> UserResponse(user[1])]

\* Lines 84-130: what login_user answers on a collection.
LoginOutcome(coll, login_data, fault) ==
    LET user == FindOneByEmail(coll, login_data.email)
    IN  IF fault
        THEN HTTPException(500, "Server error")
        ELSE IF user = None
        THEN HTTPException(400, "Invalid credentials")
        ELSE IF VerifyRaises(user[1], login_data.password)
        THEN HTTPException(500, "Server error")
        ELSE IF ~IsValid(login_data.password, user[1].password)
        THEN HTTPException(400, "Invalid credentials")
        ELSE IF UserResponseRaises(user[1])
        THEN HTTPException(500, "Server error")
        ELSE [status |-> 200, body |-> UserResponse(user[1])]

\* Mutant: a login removes the newest document.
LoginUserDropping(login_data, fault) ==
    /\ resp' = Answer("login_user", login_data, LoginOutcome(users, login_data, fault), fault)
    /\ users' = SubSeq(users, 1, Len(users) - 1)
    /\ origin' = SubSeq(origin, 1, Len(origin) - 1)
    /\ UNCHANGED <<uniqueIndex, bcrypt_build, req>>

LoginUser(login_data, fault) ==
    /\ resp' = Answer("login_user", login_data, LoginOutcome(users, login_data, fault), fault)
    /\ UNCHANGED <<users, origin, uniqueIndex, bcrypt_build, req>>

(***************************************************************************)
(* GET /  get_all_users                                                    *)
(***************************************************************************)
\* to_list(1000): the cursor hands over at most 1000 documents.  The model
\* scales 1000 down so that a collection longer than the limit exists within
\* MaxUsers.
ToListLength == 1

GetAllUsers(fault) ==
    /\ resp' = Answer("get_all_users", None,
                      IF fault THEN HTTPException(500, StoreErrorText)
                      ELSE [status |-> 200,
                            body |-> [i \in 1..Min(Len(users), ToListLength) |->
                                         UserBody(users[i])]],
                      fault)
    /\ UNCHANGED <<users, origin, uniqueIndex, bcrypt_build, req>>

(***************************************************************************)
(* The maintenance scripts.  Each runs as one step.                        *)
(***************************************************************************)
\* init_database.py: create_index({"email": 1}, unique=True).  Building the
\* index fails, and the script goes on, when the collection holds duplicates.
InitDatabase ==
    /\ ~uniqueIndex
    /\ uniqueIndex' = EmailsUnique(users)
    /\ resp' = NoResp
    /\ UNCHANGED <<users, origin, bcrypt_build, req>>

\* add_sample_data.py, sample_users: documents without a password field.
\* (The script lists three; the model keeps the first.)
SampleUsers ==
    << [name |-> "John Doe", email |-> "e1", phone |-> "+1234567890",
        address |-> "123 Main St", created_at |-> "utcnow", updated_at |-> "utcnow"] >>

\* "Insert users (skip if already exist)": the loop of both seed scripts.
RECURSIVE InsertMissing(_, _)
InsertMissing(coll, docs) ==
    IF docs = <<>>
    THEN coll
    ELSE InsertMissing(
             IF FindOneByEmail(coll, Head(docs).email) = None
             THEN Append(coll, [id |-> NewId(coll)] @@ Head(docs))
             ELSE coll,
             Tail(docs))

\* origin of the documents a script appended
Seeded(before, after, script) ==
    [i \in 1..(Len(after) - Len(before)) |->
        [by |-> script,
         password |-> IF "password" \in DOMAIN after[Len(before) + i]
                      THEN after[Len(before) + i].password ELSE None]]

AddSampleData ==
    /\ users' = InsertMissing(users, SampleUsers)
    /\ Len(users') + Cardinality(InFlight) <= MaxUsers
    /\ users' # users
    /\ origin' = origin \o Seeded(users, users', "add_sample_data")
    /\ resp' = NoResp
    /\ UNCHANGED <<uniqueIndex, bcrypt_build, req>>

\* add_login_credentials.py, user_credentials and test_users: plaintext
\* passwords.  (The script lists three of each; the model keeps the first.)
UserCredentials == << [email |-> "e1", password |-> <<"a", "b">>] >>

TestUsers ==
    << [name |-> "Test User", email |-> "e2", password |-> <<"b">>,
        phone |-> "+1234567893", address |-> "123 Test St",
        created_at |-> "utcnow", updated_at |-> "utcnow"] >>

\* Mutant: a listed user gets the listed password whether it has one or not.
WithCredentialsOverwrite(coll) ==
    [i \in 1..Len(coll) |->
        IF \E k \in 1..Len(UserCredentials) : UserCredentials[k].email = coll[i].email
        THEN LET cred == UserCredentials[CHOOSE k \in 1..Len(UserCredentials) :
                             UserCredentials[k].email = coll[i].email]
             IN  [f \in DOMAIN coll[i] \cup {"password", "updated_at"} |->
                    IF f = "password" THEN cred.password
                    ELSE IF f = "updated_at" THEN "utcnow"
                    ELSE coll[i][f]]
        ELSE coll[i]]

\* Lines 57-71: a listed user without a password field gets the listed one.
WithCredentials(coll) ==
    [i \in 1..Len(coll) |->
        IF /\ \E k \in 1..Len(UserCredentials) : UserCredentials[k].email = coll[i].email
           /\ "password" \notin DOMAIN coll[i]
        THEN LET cred == UserCredentials[CHOOSE k \in 1..Len(UserCredentials) :
                             /\ UserCredentials[k].email = coll[i].email
                             /\ \A m \in 1..Len(UserCredentials) :
                                   UserCredentials[m].email = coll[i].email => k <= m]
             IN  [f \in DOMAIN coll[i] \cup {"password", "updated_at"} |->
                    IF f = "password" THEN cred.password
                    ELSE IF f = "updated_at" THEN "utcnow"
                    ELSE coll[i][f]]
        ELSE coll[i]]

AddLoginCredentials ==
    /\ users' = InsertMissing(WithCredentials(users), TestUsers)
    /\ Len(users') + Cardinality(InFlight) <= MaxUsers
    /\ users' # users
    /\ origin' = origin \o Seeded(users, users', "add_login_credentials")
    /\ resp' = NoResp
    /\ UNCHANGED <<uniqueIndex, bcrypt_build, req>>

(***************************************************************************)
(* Specifications                                                          *)
(***************************************************************************)
RegisterHandlers == {"register_user", "register_user_alt"}

RegisterStep(r, fault) ==
    \/ \E user \in UserCreate, salt \in Salts : RegisterUser_FindExisting(r, user, salt, fault)
    \/ RegisterUser_InsertOne(r, fault)
    \/ RegisterUser_FindCreated(r, fault)
    \/ \E user \in UserCreate, salt \in Salts : RegisterUserAlt_FindExisting(r, user, salt, fault)
    \/ RegisterUserAlt_InsertOne(r, fault)
    \/ RegisterUserAlt_FindCreated(r, fault)

\* Requests and scripts run one after another: a register request finishes
\* before anything else starts.
Next ==
    \/ \E r \in Req, fault \in BOOLEAN, user \in UserCreate, salt \in Salts :
          InFlight \subseteq {r} /\ RegisterUser_FindExisting(r, user, salt, fault)
    \/ \E r \in Req, fault \in BOOLEAN :
          InFlight \subseteq {r} /\ RegisterUser_InsertOne(r, fault)
    \/ \E r \in Req, fault \in BOOLEAN :
          InFlight \subseteq {r} /\ RegisterUser_FindCreated(r, fault)
    \/ \E r \in Req, fault \in BOOLEAN, user \in UserCreate, salt \in Salts :
          InFlight \subseteq {r} /\ RegisterUserAlt_FindExisting(r, user, salt, fault)
    \/ \E r \in Req, fault \in BOOLEAN :
          InFlight \subseteq {r} /\ RegisterUserAlt_InsertOne(r, fault)
    \/ \E r \in Req, fault \in BOOLEAN :
          InFlight \subseteq {r} /\ RegisterUserAlt_FindCreated(r, fault)
    \/ \E login_data \in UserLogin, fault \in BOOLEAN : InFlight = {} /\ LoginUser(login_data, fault)
    \/ \E fault \in BOOLEAN : InFlight = {} /\ GetAllUsers(fault)
    \/ InFlight = {} /\ InitDatabase
    \/ InFlight = {} /\ AddSampleData
    \/ InFlight = {} /\ AddLoginCredentials

Spec == Init /\ [][Next]_vars

\* The steps of register requests interleave with each other and with the
\* scripts.
NextRace ==
    \/ \E r \in Req, fault \in BOOLEAN : RegisterStep(r, fault)
    \/ InitDatabase
    \/ AddSampleData
    \/ AddLoginCredentials

SpecRace == Init /\ [][NextRace]_vars

\* The values a password field can hold: plaintext as the seed script and
\* earlier versions wrote it ("legacy plain text password (for backward
\* compatibility)"), a bcrypt hash, or text that starts with the marker and
\* does not parse as a hash.
StoredCredentials ==
    Passwords
    \cup {HashPw(p, salt) : p \in Passwords, salt \in Salts}
    \cup {<<"$2b$">>, <<"$2b$", "a">>}

\* The documents a collection older than the handlers can hold: login_user
\* reads password, name and phone of what find_one returns, and nothing
\* makes the collection have them.
LegacyUsers ==
    {[f \in {"id", "name", "email", "phone", "address", "password"} \ missing |->
         CASE f = "id" -> 1
           [] f = "name" -> "Ann"
           [] f = "email" -> "e1"
           [] f = "phone" -> "555"
           [] f = "address" -> "street"
           [] f = "password" -> stored] :
       stored \in StoredCredentials, missing \in SUBSET {"name", "phone", "password"}}

\* login_user on a collection that was filled before the handlers ran.
InitStored ==
    /\ \E doc \in LegacyUsers : users = <<doc>>
    /\ origin = <<[by |-> "legacy", password |-> None]>>
    /\ uniqueIndex = FALSE
    /\ bcrypt_build \in {"truncating", "raising"}
    /\ req = [r \in Req |-> Idle]
    /\ resp = NoResp

NextStored == \E login_data \in UserLogin, fault \in BOOLEAN : LoginUser(login_data, fault)

SpecStored == InitStored /\ [][NextStored]_vars

\* bcrypt.gensalt() draws 16 random bytes on every call.  Taken as an ideal
\* random source it never returns a value it returned before: the values a
\* new call can return are those no document and no request in flight holds.
\* Each register request draws one; MaxUsers values are enough for the
\* documents the model holds.
FreshSalts == {SaltNames[i] : i \in 1..MaxUsers}

DrawnSalts ==
    {users[i].password[2] :
        i \in {k \in 1..Len(users) : /\ "password" \in DOMAIN users[k]
                                     /\ StartsWith2b(users[k].password)
                                     /\ Len(users[k].password) >= 2}}
    \cup {req[r].user_dict.password[2] : r \in {q \in Req : req[q].pc = "insert_one"}}

\* Interleaved register requests whose salts come from the ideal source.
NextFresh ==
    \/ \E r \in Req, fault \in BOOLEAN, user \in UserCreate, salt \in FreshSalts \ DrawnSalts :
          RegisterUser_FindExisting(r, user, salt, fault)
    \/ \E r \in Req, fault \in BOOLEAN : RegisterUser_InsertOne(r, fault)
    \/ \E r \in Req, fault \in BOOLEAN : RegisterUser_FindCreated(r, fault)
    \/ \E r \in Req, fault \in BOOLEAN, user \in UserCreate, salt \in FreshSalts \ DrawnSalts :
          RegisterUserAlt_FindExisting(r, user, salt, fault)
    \/ \E r \in Req, fault \in BOOLEAN : RegisterUserAlt_InsertOne(r, fault)
    \/ \E r \in Req, fault \in BOOLEAN : RegisterUserAlt_FindCreated(r, fault)

SpecFresh == Init /\ [][NextFresh]_vars

\* Logins interleave with the steps of register requests, before and after
\* init_database created the index.  The store answers every operation of a
\* register request here, so that a request that is no longer in flight and
\* whose document is in the collection was answered 201.
NextLogin ==
    \/ \E r \in Req, user \in UserCreate, salt \in Salts :
          RegisterUser_FindExisting(r, user, salt, FALSE)
    \/ \E r \in Req : RegisterUser_InsertOne(r, FALSE)
    \/ \E r \in Req : RegisterUser_FindCreated(r, FALSE)
    \/ \E r \in Req, user \in UserCreate, salt \in Salts :
          RegisterUserAlt_FindExisting(r, user, salt, FALSE)
    \/ \E r \in Req : RegisterUserAlt_InsertOne(r, FALSE)
    \/ \E r \in Req : RegisterUserAlt_FindCreated(r, FALSE)
    \/ \E login_data \in UserLogin, fault \in BOOLEAN : LoginUser(login_data, fault)
    \/ InitDatabase

SpecLogin == Init /\ [][NextLogin]_vars

(***************************************************************************)
(* Properties                                                              *)
(***************************************************************************)
IsRegisterResp == resp.handler \in RegisterHandlers

\* C1: a register request, on either endpoint, whose existence check finds a
\* document with its email is answered 409 Conflict, and its step leaves the
\* collection exactly as it was; no such request goes on to its insert.
\* (The existence check is the one step of a register request that answers
\* and leaves the requests in flight as they were.)
C1_ConflictLeavesStore ==
    [][ /\ ( /\ resp'.handler \in RegisterHandlers
             /\ ~resp'.fault
             /\ req' = req
             /\ WithEmail(users, resp'.request.email) # {} )
           => ( /\ resp'.status = 409
                /\ resp'.body = [detail |-> "Email already registered"]
                /\ users' = users )
        /\ \A r \in Req :
              (req[r].pc = "idle" /\ req'[r].pc = "insert_one")
              => WithEmail(users, req'[r].user.email) = {} ]_vars

C1_Witness ==
    /\ IsRegisterResp
    /\ resp.status = 409
    /\ WithEmail(users, resp.request.email) # {}
    /\ InFlight # {}

\* C2: a failed login for an email that a document holds is answered exactly
\* as a login for an email that no document holds.
C2_FailedLoginsAlike ==
    ( /\ resp.handler = "login_user"
      /\ ~resp.fault
      /\ resp.status # 200
      /\ WithEmail(users, resp.request.email) # {} )
    => [status |-> resp.status, body |-> resp.body]
          = LoginOutcome(<<>>, resp.request, FALSE)

\* C3: when register requests run one at a time, no two documents of the
\* collection have the same email.
C3_EmailsUnique == EmailsUnique(users)

C3_Witness ==
    /\ Len(users) = 2
    /\ \A i \in 1..2 : origin[i].by = "register"
    /\ IsRegisterResp
    /\ resp.status = 201

\* C4: without the unique index, the insert of a register request that the
\* store answers always adds the document, whatever the collection holds; so
\* two interleaved requests with one email both insert.
C4_InsertUnchecked ==
    [][\A r \in Req :
          ( /\ req[r].pc = "insert_one"
            /\ req'[r].pc # "insert_one"
            /\ ~uniqueIndex
            /\ ~resp'.fault )
          => ( /\ req'[r].pc = "find_created"
               /\ Len(users') = Len(users) + 1
               /\ users'[Len(users')].email = req[r].user.email )]_vars

C4_Witness ==
    /\ ~uniqueIndex
    /\ \E i, j \in 1..Len(users) :
          /\ i # j
          /\ users[i].email = users[j].email
          /\ origin[i].by = "register"
          /\ origin[j].by = "register"
    /\ \A r \in Req : req[r].pc = "find_created"

\* C5: once the unique index on email exists, no interleaving of register
\* requests leaves two documents with the same email.
C5_IndexKeepsUnique == uniqueIndex => EmailsUnique(users)

C5_Witness ==
    /\ uniqueIndex
    /\ IsRegisterResp
    /\ resp.status = 400
    /\ resp.body = [detail |-> DuplicateKeyText]


\* C6: a register request that fails while a document written by a register
\* request holds its email is answered 409; this covers the request whose
\* insert the unique index refuses after a concurrent request inserted first.
C6_TakenEmailIs409 ==
    ( /\ IsRegisterResp
      /\ ~resp.fault
      /\ resp.status # 201
      /\ \E i \in WithEmail(users, resp.request.email) : origin[i].by = "register" )
    => resp.status = 409

\* The document login matched: the first one with the email of the request.
Matched == FindOneByEmail(users, resp.request.email)

\* C7: a successful login returns exactly id, name, email and phone of the
\* matched document, and none of its other fields.
C7_LoginProjection ==
    (resp.handler = "login_user" /\ resp.status = 200)
    => ( /\ Matched # None
         /\ DOMAIN resp.body = {"id", "name", "email", "phone"}
         /\ resp.body.id = ObjectIdStr(Matched[1].id)
         /\ resp.body.name = Matched[1].name
         /\ resp.body.email = Matched[1].email
         /\ resp.body.phone = Matched[1].phone )

C7_Witness ==
    /\ resp.handler = "login_user"
    /\ resp.status = 200
    /\ {"password", "address", "created_at", "updated_at"} \subseteq DOMAIN Matched[1]

\* C8: no response of a user endpoint carries the password field of a
\* document.
C8_NoPasswordInResponses ==
    /\ (IsRegisterResp /\ resp.status = 201) => "password" \notin DOMAIN resp.body
    /\ (resp.handler = "login_user" /\ resp.status = 200) => "password" \notin DOMAIN resp.body
    /\ (resp.handler = "get_all_users" /\ resp.status = 200)
          => \A i \in 1..Len(resp.body) : "password" \notin DOMAIN resp.body[i]

\* The only document with the email of the login request was written by a
\* register request: its position in the collection, as a set.
OnlyRegistered ==
    {i \in WithEmail(users, resp.request.email) :
        /\ WithEmail(users, resp.request.email) = {i}
        /\ origin[i].by = "register"}

\* C9: a login that the store answers, with the password a register request
\* created the only document of that email with, is answered 200.
C9_RegisteredPasswordLogsIn ==
    (resp.handler = "login_user" /\ ~resp.fault)
    => \A i \in OnlyRegistered :
          origin[i].password = resp.request.password => resp.status = 200

C9_Witness ==
    /\ resp.handler = "login_user"
    /\ resp.status = 200
    /\ \E i \in OnlyRegistered :
          /\ origin[i].password = resp.request.password
          /\ Len(resp.request.password) > BcryptMaxBytes

\* C10: a login with any other password than the one a register request
\* created the only document of that email with is answered 400, invalid
\* credentials.
C10_OtherPasswordRejected ==
    (resp.handler = "login_user" /\ ~resp.fault)
    => \A i \in OnlyRegistered :
          origin[i].password # resp.request.password
          => ( /\ resp.status = 400
               /\ resp.body = [detail |-> "Invalid credentials"] )

\* C11: when the password the matched document stores does not start with
\* "$2b$", a login that the store answers is accepted if and only if the
\* submitted password equals the stored value, and is answered 400 otherwise;
\* so a document that add_login_credentials wrote with a plaintext password
\* logs in with exactly that password.
C11_LegacyExactMatch ==
    ( /\ resp.handler = "login_user"
      /\ ~resp.fault
      /\ Matched # None
      /\ "password" \in DOMAIN Matched[1]
      /\ ~StartsWith2b(Matched[1].password) )
    => ( /\ resp.status = 200 <=> resp.request.password = Matched[1].password
         /\ resp.status \in {200, 400}
         /\ \A i \in WithEmail(users, resp.request.email) :
               (origin[i].by = "add_login_credentials" /\ i = Matched[1].id)
               => (resp.status = 200 <=> resp.request.password = origin[i].password) )

C11_Witness ==
    /\ resp.handler = "login_user"
    /\ resp.status = 200
    /\ Matched # None
    /\ ~StartsWith2b(Matched[1].password)
    /\ origin[Matched[1].id].by = "add_login_credentials"
    /\ resp.request.password = origin[Matched[1].id].password

\* C12: when the matched document stores a password that is not a
\* well-formed hash, also one that starts with "$2b$", a login that the
\* store answers compares it with the submitted password as plaintext: the
\* answer is 200 when they are equal, 400 when they differ, and never 500.
C12_MalformedIsLegacy ==
    ( /\ resp.handler = "login_user"
      /\ ~resp.fault
      /\ Matched # None
      /\ {"password", "name", "phone"} \subseteq DOMAIN Matched[1]
      /\ ~WellFormedHash(Matched[1].password) )
    => ( /\ resp.status \in {200, 400}
         /\ resp.status = 200 <=> resp.request.password = Matched[1].password )

C14_FaultsGeneric ==
    resp.fault
    => ( /\ resp.status = 500
         /\ resp.body.detail # StoreErrorText )

\* C15: the password field of every document a register request inserted
\* is a well-formed bcrypt hash, namely the hash of the submitted password
\* under the salt it embeds, and is not the submitted password; login
\* therefore takes the bcrypt branch for it.
C15_RegisteredIsHashed ==
    \A i \in 1..Len(users) :
        origin[i].by = "register"
        => ( /\ "password" \in DOMAIN users[i]
             /\ StartsWith2b(users[i].password)
             /\ WellFormedHash(users[i].password)
             /\ users[i].password = HashPw(origin[i].password, users[i].password[2])
             /\ users[i].password # origin[i].password )

C15_Witness ==
    /\ InFlight = {}
    /\ \E i \in 1..Len(users) :
          /\ origin[i].by = "register"
          /\ StartsWith2b(users[i].password)
          /\ Len(origin[i].password) = MaxPwLen

\* C16: a get_all_users request that the store answers returns every
\* document of the collection, however many there are.
C16_AllUsersReturned ==
    (resp.handler = "get_all_users" /\ resp.status = 200)
    => ( /\ Len(resp.body) = Len(users)
         /\ \A i \in 1..Len(users) : resp.body[i] = UserBody(users[i]) )

\* C17: a step of a handler (one that answers, or that moves a register
\* request on) removes no document and changes none: the collection after
\* the step starts with the collection before it; a step of get_all_users or
\* login_user leaves the collection as it was, whatever it answers.
C17_HandlersOnlyAdd ==
    [][ (resp'.handler # NoVal \/ req' # req)
        => ( /\ Len(users') >= Len(users)
             /\ \A i \in 1..Len(users) : users'[i] = users[i]
             /\ resp'.handler \in {"login_user", "get_all_users"} => users' = users ) ]_vars

C17_Witness ==
    /\ resp.handler \in {"login_user", "get_all_users"}
    /\ resp.status # 200
    /\ Len(users) = MaxUsers
    /\ \E i \in 1..Len(users) : origin[i].by = "register"

\* A step of a handler is a function of the state, the request, the salt
\* and the fault: two steps agree when one outcome is possible for both, or
\* when neither can be taken (the model has no room for the document).

\* The first step answers with a status and keeps the request out of flight.
FindExistingAnswers(r, user, salt, fault, status) ==
    /\ ENABLED ( /\ RegisterUser_FindExisting(r, user, salt, fault)
                 /\ resp'.status = status /\ req' = req /\ users' = users )
    /\ ENABLED ( /\ RegisterUserAlt_FindExisting(r, user, salt, fault)
                 /\ resp'.status = status /\ req' = req /\ users' = users )

\* The first step sends nothing and goes on to insert user_dict.
FindExistingGoesOn(r, user, salt, fault, user_dict) ==
    /\ ENABLED ( /\ RegisterUser_FindExisting(r, user, salt, fault)
                 /\ resp' = NoResp /\ users' = users
                 /\ req'[r].pc = "insert_one" /\ req'[r].user = user
                 /\ req'[r].user_dict = user_dict )
    /\ ENABLED ( /\ RegisterUserAlt_FindExisting(r, user, salt, fault)
                 /\ resp' = NoResp /\ users' = users
                 /\ req'[r].pc = "insert_one" /\ req'[r].user = user
                 /\ req'[r].user_dict = user_dict )

SameFindExisting(r, user, salt, fault) ==
    \/ FindExistingAnswers(r, user, salt, fault, 400)
    \/ FindExistingAnswers(r, user, salt, fault, 409)
    \/ FindExistingGoesOn(r, user, salt, fault,
                          [user EXCEPT !.password = HashPw(user.password, salt)])
    \/ FindExistingGoesOn(r, user, salt, fault, user)
    \/ /\ ~ENABLED RegisterUser_FindExisting(r, user, salt, fault)
       /\ ~ENABLED RegisterUserAlt_FindExisting(r, user, salt, fault)

\* r1 runs register_user and r2 register_user_alt, at the same step of the
\* same request.
Twins(r1, r2, pc) ==
    /\ req[r1].pc = pc /\ req[r2].pc = pc
    /\ req[r1].handler = "register_user" /\ req[r2].handler = "register_user_alt"
    /\ req[r1].user = req[r2].user
    /\ req[r1].user_dict = req[r2].user_dict

\* The insert of the two handlers: refused with 400 and the collection as it
\* was, or the same document appended.
SameInsertOne(r1, r2, fault) ==
    LET inserted == Append(users, [id |-> NewId(users)] @@ req[r1].user_dict)
    IN  \/ /\ ENABLED ( /\ RegisterUser_InsertOne(r1, fault)
                         /\ resp'.status = 400 /\ req'[r1] = Idle /\ users' = users )
           /\ ENABLED ( /\ RegisterUserAlt_InsertOne(r2, fault)
                         /\ resp'.status = 400 /\ req'[r2] = Idle /\ users' = users )
        \/ /\ ENABLED ( /\ RegisterUser_InsertOne(r1, fault)
                         /\ resp' = NoResp /\ req'[r1].pc = "find_created"
                         /\ users' = inserted )
           /\ ENABLED ( /\ RegisterUserAlt_InsertOne(r2, fault)
                         /\ resp' = NoResp /\ req'[r2].pc = "find_created"
                         /\ users' = inserted )

\* The read-back of the two handlers: 201 or 400, the collection as it was.
SameFindCreated(r1, r2, fault) ==
    \E status \in {201, 400} :
        /\ ENABLED ( /\ RegisterUser_FindCreated(r1, fault)
                     /\ resp'.status = status /\ req'[r1] = Idle /\ users' = users )
        /\ ENABLED ( /\ RegisterUserAlt_FindCreated(r2, fault)
                     /\ resp'.status = status /\ req'[r2] = Idle /\ users' = users )

\* C18: register_user and register_user_alt are interchangeable.  In every
\* state, for every request body, salt and store fault, the first step of
\* the two handlers gives the same answer or the same continuation; and
\* whenever the two handlers are at the same later step of the same request,
\* on the same collection, that step gives the same status and the same
\* change of the collection.
C18_EndpointsInterchangeable ==
    /\ \A r \in Req, user \in UserCreate, salt \in Salts, fault \in BOOLEAN :
          FreeSlot(r) => SameFindExisting(r, user, salt, fault)
    /\ \A r1, r2 \in Req, fault \in BOOLEAN :
          /\ Twins(r1, r2, "insert_one") => SameInsertOne(r1, r2, fault)
          /\ Twins(r1, r2, "find_created") => SameFindCreated(r1, r2, fault)

C18_Witness ==
    /\ \E r1, r2 \in Req : Twins(r1, r2, "insert_one")
    /\ uniqueIndex
    /\ Len(users) = 0

\* C19: with a salt source that never repeats a value, two documents that
\* register requests inserted for different emails from the same password
\* hold different password values.
C19_FreshSaltPerCall ==
    \A i, j \in 1..Len(users) :
        ( /\ i # j
          /\ origin[i].by = "register" /\ origin[j].by = "register"
          /\ users[i].email # users[j].email
          /\ origin[i].password = origin[j].password )
        => users[i].password # users[j].password

C19_Witness ==
    \E i, j \in 1..Len(users) :
        /\ i # j
        /\ origin[i].by = "register" /\ origin[j].by = "register"
        /\ users[i].email # users[j].email
        /\ origin[i].password = origin[j].password
        /\ users[i].password # users[j].password

\* C20: every request gets exactly one response and nothing escapes a
\* handler.  A register request in flight can always take its next step,
\* whether the store raises in it or not; a step that moves it on sends
\* nothing, and the step that ends it sends its response, with status 201,
\* 409 or 400.  A login is one step and is answered 200, 400 or 500.
C20_OneResponse ==
    /\ [](\A r \in InFlight, fault \in BOOLEAN : ENABLED RegisterStep(r, fault))
    /\ [][ /\ resp'.handler \in RegisterHandlers => resp'.status \in {201, 409, 400}
           /\ resp'.handler = "login_user"
              => (resp'.status \in {200, 400, 500} /\ req' = req)
           /\ \A r \in Req :
                 /\ (req[r].pc # "idle" /\ req'[r].pc = "idle")
                    => ( /\ resp'.handler = req[r].handler
                         /\ resp'.request = req[r].user
                         /\ resp'.status \in {201, 400} )
                 /\ (req'[r].pc # "idle" /\ req'[r] # req[r]) => resp' = NoResp
                 /\ (req[r].pc = "insert_one" /\ req'[r] # req[r])
                    => req'[r].pc \in {"find_created", "idle"}
                 /\ (req[r].pc = "find_created" /\ req'[r] # req[r])
                    => req'[r].pc = "idle" ]_vars

C20_Witness ==
    /\ IsRegisterResp
    /\ resp.fault
    /\ resp.status = 400
    /\ InFlight = {}
    /\ \E i \in 1..Len(users) : /\ origin[i].by = "register"
                                 /\ users[i].email = resp.request.email

\* C21: a register request that is answered with another status than 201
\* leaves no document behind: the step that answers it changes nothing in
\* the collection, and the document the request inserted, if it inserted
\* one, is not in the collection afterwards.
C21_FailureLeavesNothing ==
    [][ ( /\ resp'.handler \in RegisterHandlers
          /\ resp'.status # 201 )
        => ( /\ users' = users
             /\ \A r \in Req :
                   (req[r].pc # "idle" /\ req'[r].pc = "idle")
                   => FindOneById(users', req[r].inserted_id) = None ) ]_vars

\* The documents that register requests answered with 201 created for the
\* email and the password of the login request: written by a register
\* request that is no longer in flight.
Registered201 ==
    {i \in WithEmail(users, resp.request.email) :
        /\ origin[i].by = "register"
        /\ origin[i].password = resp.request.password
        /\ \A r \in Req : ~(req[r].pc = "find_created" /\ req[r].inserted_id = users[i].id)}

\* C22: however register and login requests interleave, a login that the
\* store answers, with the email and the password a register request was
\* answered 201 for, is answered 200.
C22_RegisteredLogsInLater ==
    (resp.handler = "login_user" /\ ~resp.fault /\ Registered201 # {})
    => resp.status = 200

\* C23: a run of add_login_credentials on any collection the program can
\* hold leaves every document that has a password as it is, gives a password
\* only to a listed user that has none, and inserts a test user only when no
\* document has its email; a second run changes nothing.
C23_CredentialsIdempotent ==
    LET once == InsertMissing(WithCredentials(users), TestUsers)
        twice == InsertMissing(WithCredentials(once), TestUsers)
        listed == {UserCredentials[k].email : k \in 1..Len(UserCredentials)}
    IN  /\ twice = once
        /\ Len(once) >= Len(users)
        /\ \A i \in 1..Len(users) :
              /\ "password" \in DOMAIN users[i] => once[i] = users[i]
              /\ once[i] # users[i]
                 => ( /\ users[i].email \in listed
                      /\ "password" \notin DOMAIN users[i]
                      /\ "password" \in DOMAIN once[i] )
        /\ \A i \in (Len(users) + 1)..Len(once) :
              /\ WithEmail(users, once[i].email) = {}
              /\ \E k \in 1..Len(TestUsers) : once[i] = [id |-> i] @@ TestUsers[k]

C23_Witness ==
    /\ \E i \in 1..Len(users) :
          /\ origin[i].by = "add_sample_data"
          /\ "password" \in DOMAIN users[i]
    /\ \E j \in 1..Len(users) : origin[j].by = "add_login_credentials"
    /\ InsertMissing(WithCredentials(users), TestUsers) = users

====
